---------------------------- MODULE Spec2Model ----------------------------
(*
  A model of cerberus/errors.py: the error classification predicates, the
  path-indexed ErrorTree and the BasicErrorHandler report builder.

  Encoding of Python values
    - a path (tuple) is a sequence of strings; an integer segment such as
      the index of an *of-definition is written as its decimal string ("0");
    - None is the string NoneVal;
    - ValidationError objects live in a heap (address -> object) so that
      aliasing and in-place mutation are visible.  info[0] of a group error
      (its child list) is the field child_errors of the object, the other
      positional values of info are the field info;
    - a dict is a function; a list of the handler's tree is a sequence of
      items, a message item Msg(...) or a dict item D(f);
    - a raised exception is the name of its class, NoneVal when none.
*)
EXTENDS Integers, Sequences, FiniteSets, TLC

VARIABLES
    heap,       \* the ValidationError objects owned by the caller
    tree,       \* BasicErrorHandler.tree
    op,         \* the operation that has just run, "idle" between calls
    arg,        \* its argument: a sequence of addresses of errors
    preTree,    \* BasicErrorHandler.tree before the last operation
    raised,     \* the exception the last operation raised, or NoneVal
    result,     \* the value the last operation returned, or NoneVal
    adds,       \* number of add calls since the tree was last cleared
    tree_type,  \* ErrorTree.tree_type
    etree,      \* the ErrorTree root (an ErrorTreeNode)
    added,      \* the errors passed to ErrorTree.add so far
    code,       \* the error code under classification
    flags       \* the classification computed for code

vars == <<heap, tree, op, arg, preTree, raised, result, adds,
          tree_type, etree, added, code, flags>>

NoneVal == "<None>"

(***************************************************************************)
(* Bounds                                                                  *)
(***************************************************************************)
MaxAdds == 2        \* add calls on the handler between two clears
MaxErrors == 2      \* length of a collection passed to extend / __call__
MaxTreeAdds == 2    \* add calls on the ErrorTree
MaxCode == 255      \* largest error code classified

(***************************************************************************)
(* Error definitions (errors.py 43-94)                                     *)
(***************************************************************************)
REQUIRED_FIELD == 2      \* 0x02
EXCLUDES_FIELD == 6      \* 0x06
TYPE == 36               \* 0x24
ERROR_GROUP == 128       \* 0x80
SCHEMA == 129            \* 0x81
LOGICAL == 144           \* 0x90
ONEOF == 146             \* 0x92
ANYOF == 147             \* 0x93

RECURSIVE BitAnd(_, _)
BitAnd(a, b) ==
    IF a = 0 \/ b = 0 THEN 0
    ELSE (a % 2) * (b % 2) + 2 * BitAnd(a \div 2, b \div 2)

\* code & mask for every code, computed once
Masked(mask) == [c \in 0..MaxCode |-> BitAnd(c, mask)] @@ <<>>

GroupBits == Masked(ERROR_GROUP)

LogicBits == Masked(LOGICAL - ERROR_GROUP)

\* ValidationError.is_group_error
is_group_error(c) == GroupBits[c] # 0

\* ValidationError.is_logic_error
is_logic_error(c) == LogicBits[c] # 0

(***************************************************************************)
(* BasicErrorHandler.messages (errors.py 426-462): the codes that have a   *)
(* template, and the placeholders each template uses.                      *)
(***************************************************************************)
messages ==
    {0, 1, 2, 3, 4, 5, 6, 33, 34, 35, 36, 38, 39, 40,
     65, 66, 67, 68, 69, 70, 71, 72, 97, 98, 99, 100,
     129, 130, 131, 132, 133, 145, 146, 147, 148}

UsesPositional == {0, 4, 6, 33, 38, 69, 71, 72, 97, 98, 100,
                   129, 130, 131, 132, 133}
UsesConstraint == {5, 36, 38, 39, 40, 65, 66, 67}
UsesField == {6, 97, 98, 100}
UsesValue == {68, 70}

(***************************************************************************)
(* ValidationError (errors.py 106-135) and the errors the rule engine      *)
(* hands over.  E builds a nested value, Flatten lays it out in the heap:  *)
(* the k-th input lives at <<k>>, its j-th child at <<k, j>>, and so on.   *)
(***************************************************************************)
E(dp, sp, c, r, con, inf, kids) ==
    [document_path |-> dp, schema_path |-> sp, code |-> c, rule |-> r,
     constraint |-> con, value |-> "v", info |-> inf, kids |-> kids]

Plain(dp, sp, c, r) == E(dp, sp \o <<r>>, c, r, "string", <<"i0">>, <<>>)

Group(dp, sp, c, r, kids) == E(dp, sp \o <<r>>, c, r, "sub", <<>>, kids)

Inputs ==
    << \* 1-3: plain errors; 3 has a code without a template
       Plain(<<"a">>, <<"a">>, TYPE, "type"),
       Plain(<<"a", "b">>, <<"a", "schema", "b">>, EXCLUDES_FIELD, "excludes"),
       Plain(<<"b">>, <<"b">>, 101, "custom"),
       \* 4: a group error with two plain children
       Group(<<"a">>, <<"a">>, SCHEMA, "schema",
             << Plain(<<"a", "b">>, <<"a", "schema", "b">>, TYPE, "type"),
                Plain(<<"a", "x">>, <<"a", "schema", "x">>, REQUIRED_FIELD, "required") >>),
       \* 5: a group error with a child whose code has no template
       Group(<<"b">>, <<"b">>, SCHEMA, "schema",
             << Plain(<<"b", "x">>, <<"b", "schema", "x">>, 101, "custom"),
                Plain(<<"b", "b">>, <<"b", "schema", "b">>, TYPE, "type") >>),
       \* 6: a group error inside a group error
       Group(<<"a">>, <<"a">>, SCHEMA, "schema",
             << Group(<<"a", "b">>, <<"a", "schema", "b">>, SCHEMA, "schema",
                      << Plain(<<"a", "b", "x">>, <<"a", "schema", "b", "schema", "x">>,
                               TYPE, "type") >>) >>),
       \* 7: anyof with two children under definition 0 and two under 1
       Group(<<"a">>, <<"a">>, ANYOF, "anyof",
             << Plain(<<"a">>, <<"a", "anyof", "0">>, TYPE, "type"),
                Plain(<<"a">>, <<"a", "anyof", "0">>, EXCLUDES_FIELD, "excludes"),
                Plain(<<"a">>, <<"a", "anyof", "1">>, TYPE, "type"),
                Plain(<<"a">>, <<"a", "anyof", "1">>, REQUIRED_FIELD, "required") >>),
       \* 8: anyof at a nested field, definitions interleaved
       Group(<<"a", "b">>, <<"a", "schema", "b">>, ANYOF, "anyof",
             << Plain(<<"a", "b">>, <<"a", "schema", "b", "anyof", "1">>, TYPE, "type"),
                Plain(<<"a", "b">>, <<"a", "schema", "b", "anyof", "0">>, EXCLUDES_FIELD, "excludes"),
                Plain(<<"a", "b">>, <<"a", "schema", "b", "anyof", "1">>, REQUIRED_FIELD, "required") >>),
       \* 9: a logic error nested inside a logic error
       Group(<<"b">>, <<"b">>, ANYOF, "anyof",
             << Group(<<"b">>, <<"b", "anyof", "0">>, ONEOF, "oneof",
                      << Plain(<<"b">>, <<"b", "anyof", "0", "oneof", "1">>,
                               EXCLUDES_FIELD, "excludes") >>),
                Plain(<<"b">>, <<"b", "anyof", "1">>, EXCLUDES_FIELD, "excludes") >>),
       \* 10: a group error inside a logic error
       Group(<<"a">>, <<"a">>, ONEOF, "oneof",
             << Group(<<"a">>, <<"a", "oneof", "0">>, SCHEMA, "schema",
                      << Plain(<<"a", "x">>, <<"a", "oneof", "0", "schema", "x">>,
                               TYPE, "type") >>) >>),
       \* 11: a logic error inside a group error
       Group(<<"b">>, <<"b">>, SCHEMA, "schema",
             << Group(<<"b", "x">>, <<"b", "schema", "x">>, ANYOF, "anyof",
                      << Plain(<<"b", "x">>, <<"b", "schema", "x", "anyof", "0">>,
                               EXCLUDES_FIELD, "excludes") >>) >>),
       \* 12: a logic error with a child whose code has no template
       Group(<<"b">>, <<"b">>, ANYOF, "anyof",
             << Plain(<<"b">>, <<"b", "anyof", "0">>, TYPE, "type"),
                Plain(<<"b">>, <<"b", "anyof", "0">>, 101, "custom"),
                Plain(<<"b">>, <<"b", "anyof", "1">>, TYPE, "type") >>),
       \* 13, 14: root-level errors (empty document_path)
       Plain(<<>>, <<>>, TYPE, "type"),
       Group(<<>>, <<>>, SCHEMA, "schema",
             << Plain(<<"a">>, <<"schema", "a">>, TYPE, "type"),
                Plain(<<"b">>, <<"schema", "b">>, REQUIRED_FIELD, "required") >>),
       \* 15: a custom plain code of the existence range, 0x10
       Plain(<<"a">>, <<"a">>, 16, "custom"),
       \* 16: a plain error three levels deep, below a list index
       Plain(<<"a", "1", "x">>, <<"a", "schema", "schema", "x">>, TYPE, "type") >>

RECURSIVE Flatten(_, _), FlattenKids(_, _, _)
Flatten(e, a) ==
    (a :> [document_path |-> e.document_path, schema_path |-> e.schema_path,
           code |-> e.code, rule |-> e.rule, constraint |-> e.constraint,
           value |-> e.value, info |-> e.info,
           child_errors |-> [j \in 1..Len(e.kids) |-> a \o <<j>>]])
    @@ FlattenKids(e, a, 1)
FlattenKids(e, a, j) ==
    IF j > Len(e.kids) THEN <<>>
    ELSE Flatten(e.kids[j], a \o <<j>>) @@ FlattenKids(e, a, j + 1)

RECURSIVE FlattenAll(_)
FlattenAll(k) ==
    IF k > Len(Inputs) THEN <<>>
    ELSE Flatten(Inputs[k], <<k>>) @@ FlattenAll(k + 1)

CallerHeap == FlattenAll(1)

Top == {<<k>> : k \in 1..Len(Inputs)}

(***************************************************************************)
(* Python helpers                                                          *)
(***************************************************************************)
Front(s) == SubSeq(s, 1, Len(s) - 1)

Last(s) == s[Len(s)]

\* s[start:] for a tuple s
PySliceFrom(s, start) ==
    LET n == Len(s)
        lo == IF start < 0 THEN (IF n + start < 0 THEN 0 ELSE n + start)
              ELSE (IF start > n THEN n ELSE start)
    IN  SubSeq(s, lo + 1, n)

\* '%s' % x
PyStr(x) == IF x = NoneVal THEN "None" ELSE x

IsPrefix(p, q) == Len(p) <= Len(q) /\ SubSeq(q, 1, Len(p)) = p

\* x = v; K(x): a statement's result is computed once, then the rest runs
Then(v, K(_)) == CHOOSE r \in {K(x) : x \in {v}} : TRUE

(***************************************************************************)
(* ValidationError properties (errors.py 171-210)                          *)
(***************************************************************************)
\* ValidationError.child_errors
child_errors(o) ==
    IF is_group_error(o.code) THEN [none |-> FALSE, list |-> o.child_errors]
    ELSE [none |-> TRUE, list |-> <<>>]

\* ValidationError.field
field(o) ==
    IF Len(o.document_path) > 0 THEN Last(o.document_path) ELSE NoneVal

\* ValidationError.definitions_errors of the logic error at a: the buckets
\* in the order the defaultdict created them, or the exception raised.
RECURSIVE Bucketize(_, _, _, _)
Bucketize(h, a, j, acc) ==
    LET kids == child_errors(h[a]).list IN
    IF j > Len(kids) THEN [exc |-> NoneVal, buckets |-> acc]
    ELSE LET c == kids[j]
             n == Len(h[a].schema_path)
         IN  IF Len(h[c].schema_path) <= n
             THEN [exc |-> "IndexError", buckets |-> acc]
             ELSE LET i == h[c].schema_path[n + 1]
                      hit == {b \in 1..Len(acc) : acc[b].i = i}
                  IN  Then(IF hit = {}
                           THEN Append(acc, [i |-> i, errs |-> <<c>>])
                           ELSE [b \in 1..Len(acc) |->
                                   IF b \in hit
                                   THEN [acc[b] EXCEPT !.errs = Append(@, c)]
                                   ELSE acc[b]],
                           LAMBDA acc1 : Bucketize(h, a, j + 1, acc1))

definitions_errors(h, a) ==
    IF child_errors(h[a]).none
    THEN [exc |-> "TypeError", buckets |-> <<>>]
    ELSE Bucketize(h, a, 1, <<>>)

(***************************************************************************)
(* copy.deepcopy(error) (errors.py 485): the copy of the object at b is    *)
(* allocated at <<0>> \o b.                                                *)
(***************************************************************************)
CopyAddr(b) == <<0>> \o b

Reach(h, a) == {b \in DOMAIN h : IsPrefix(a, b)}

shallowcopy(h, a) ==
    [h |-> (CopyAddr(a) :> h[a]) @@ h, ref |-> CopyAddr(a)]

deepcopy(h, a) ==
    [h |-> [x \in {CopyAddr(b) : b \in Reach(h, a)} |->
              [h[Tail(x)] EXCEPT
                 !.child_errors = [j \in DOMAIN @ |-> CopyAddr(@[j])]]] @@ h,
     ref |-> CopyAddr(a)]

(***************************************************************************)
(* Path rewriting (errors.py 572-604).  A pass takes and returns           *)
(* [h |-> heap, exc |-> exception]; nothing runs after an exception.       *)
(***************************************************************************)
RECURSIVE _rewrite_error_path(_, _, _), GroupLoop(_, _, _, _, _),
          BucketLoop(_, _, _, _, _, _), BucketKidsLoop(_, _, _, _, _, _)

nodename(rule, i) == PyStr(rule) \o " definition " \o PyStr(i)

GroupLoop(s, a, offset, child_start, j) ==
    LET kids == child_errors(s.h[a]).list IN
    IF s.exc # NoneVal \/ j > Len(kids) THEN s
    ELSE LET c == kids[j]
             relative_path == PySliceFrom(s.h[c].document_path, child_start)
         IN  Then([s.h EXCEPT ![c].document_path =
                                 s.h[a].document_path \o relative_path],
                  LAMBDA h1 :
                    Then(_rewrite_error_path(h1, c, offset),
                         LAMBDA s1 : GroupLoop(s1, a, offset, child_start, j + 1)))

_rewrite_group_error_path(h, a, offset) ==
    Then([h |-> h, exc |-> NoneVal],
         LAMBDA s : GroupLoop(s, a, offset, Len(h[a].document_path) - offset, 1))

BucketKidsLoop(s, errs, path, offset, child_start, j) ==
    IF s.exc # NoneVal \/ j > Len(errs) THEN s
    ELSE LET c == errs[j]
             rel_path == PySliceFrom(s.h[c].document_path, child_start)
         IN  Then([s.h EXCEPT ![c].document_path = path \o rel_path],
                  LAMBDA h1 :
                    Then(_rewrite_error_path(h1, c, offset + 1),
                         LAMBDA s1 : BucketKidsLoop(s1, errs, path, offset,
                                                    child_start, j + 1)))

BucketLoop(s, a, buckets, offset, child_start, b) ==
    IF s.exc # NoneVal \/ b > Len(buckets) THEN s
    ELSE IF Len(buckets[b].errs) = 0
         THEN BucketLoop(s, a, buckets, offset, child_start, b + 1)
         ELSE LET path == s.h[a].document_path
                          \o <<nodename(s.h[a].rule, buckets[b].i)>>
              IN  Then(BucketKidsLoop(s, buckets[b].errs, path, offset,
                                      child_start, 1),
                       LAMBDA s1 : BucketLoop(s1, a, buckets, offset,
                                              child_start, b + 1))

_rewrite_logic_error_path(h, a, offset) ==
    Then(definitions_errors(h, a),
         LAMBDA de :
           IF de.exc # NoneVal THEN [h |-> h, exc |-> de.exc]
           ELSE Then([h |-> h, exc |-> NoneVal],
                     LAMBDA s : BucketLoop(s, a, de.buckets, offset,
                                           Len(h[a].document_path) - offset, 1)))

_rewrite_error_path(h, a, offset) ==
    IF is_logic_error(h[a].code) THEN _rewrite_logic_error_path(h, a, offset)
    ELSE IF is_group_error(h[a].code)
         THEN _rewrite_group_error_path(h, a, offset)
         ELSE [h |-> h, exc |-> NoneVal]

(***************************************************************************)
(* The handler's tree: a dict from field to a list of items.               *)
(***************************************************************************)
EmptyDict == <<>>

D(f) == [t |-> "d", d |-> f]

IsDict(item) == item.t = "d"

\* dict.update: the entries of other win
Update(d, other) == other @@ d

\* BasicErrorHandler._format_message: the template of the error's code
\* filled with the placeholders that template uses.
_format_message(fld, o) ==
    IF o.code \notin messages THEN [exc |-> "KeyError", msg |-> NoneVal]
    ELSE IF /\ o.code \in UsesPositional
            /\ Len(o.info) = 0
            /\ ~is_group_error(o.code)
         THEN [exc |-> "IndexError", msg |-> NoneVal]
         ELSE [exc |-> NoneVal,
               msg |-> [t |-> "m",
                        code |-> o.code,
                        positional |-> IF o.code \in UsesPositional
                                       THEN (IF is_group_error(o.code)
                                             THEN "child_errors"
                                             ELSE o.info[1])
                                       ELSE NoneVal,
                        constraint |-> IF o.code \in UsesConstraint
                                       THEN o.constraint ELSE NoneVal,
                        field |-> IF o.code \in UsesField
                                  THEN PyStr(fld) ELSE NoneVal,
                        value |-> IF o.code \in UsesValue
                                  THEN o.value ELSE NoneVal]]

\* BasicErrorHandler._insert_error on the dict t; [t, exc]
RECURSIVE _insert_error(_, _, _)

\* an insertion that starts the field's list afresh
_insert_error_replacing(t, path, node) ==
    IF Len(path) = 0 THEN [t |-> t, exc |-> "IndexError"]
    ELSE IF Len(path) = 1
         THEN [t |-> Update(t, path[1] :> <<node, D(EmptyDict)>>),
               exc |-> NoneVal]
         ELSE Then(_insert_error(EmptyDict, Tail(path), node),
                   LAMBDA new :
                     [t |-> Update(t, path[1] :> <<D(new.t)>>),
                      exc |-> new.exc])

_insert_error(t, path, node) ==
    IF Len(path) = 0 THEN [t |-> t, exc |-> "IndexError"]
    ELSE LET fld == path[1] IN
         IF Len(path) = 1
         THEN IF fld \in DOMAIN t
              THEN [t |-> [t EXCEPT ![fld] = Front(@) \o <<node, Last(@)>>],
                    exc |-> NoneVal]
              ELSE [t |-> Update(t, fld :> <<node, D(EmptyDict)>>),
                    exc |-> NoneVal]
         ELSE Then(IF fld \notin DOMAIN t
                   THEN Update(t, fld :> <<D(EmptyDict)>>)
                   ELSE t,
                   LAMBDA t1 :
                     Then(Last(t1[fld]).d,
                          LAMBDA subtree :
                            Then(_insert_error(subtree, Tail(path), node),
                                 LAMBDA new :
                                   [t |-> [t1 EXCEPT ![fld] =
                                             Front(@) \o <<D(Update(subtree, new.t))>>],
                                    exc |-> new.exc])))

(***************************************************************************)
(* Insertion dispatch (errors.py 536-562).  s is [t, exc].                 *)
(***************************************************************************)
RECURSIVE _insert_group_error(_, _, _), _insert_logic_error(_, _, _),
          InsertGroupLoop(_, _, _, _), InsertBucketLoop(_, _, _, _, _),
          InsertBucketKidsLoop(_, _, _, _, _)

\* the plain branch: format, then insert
InsertPlain(s, fld, o) ==
    Then(_format_message(fld, o),
         LAMBDA fm :
           IF fm.exc # NoneVal THEN [t |-> s.t, exc |-> fm.exc]
           ELSE _insert_error(s.t, o.document_path, fm.msg))

InsertGroupLoop(s, h, a, j) ==
    LET kids == child_errors(h[a]).list IN
    IF s.exc # NoneVal \/ j > Len(kids) THEN s
    ELSE LET c == kids[j]
         IN  Then(IF is_logic_error(h[c].code)
                  THEN _insert_logic_error(s, h, c)
                  ELSE IF is_group_error(h[c].code)
                       THEN _insert_group_error(s, h, c)
                       ELSE InsertPlain(s, field(h[c]), h[c]),
                  LAMBDA s1 : InsertGroupLoop(s1, h, a, j + 1))

_insert_group_error_with_summary(s, h, a) ==
    Then(InsertPlain(s, field(h[a]), h[a]),
         LAMBDA s1 : InsertGroupLoop(s1, h, a, 1))

_insert_group_error(s, h, a) == InsertGroupLoop(s, h, a, 1)

InsertBucketKidsLoop(s, h, fld, errs, j) ==
    IF s.exc # NoneVal \/ j > Len(errs) THEN s
    ELSE LET c == errs[j]
         IN  Then(IF is_logic_error(h[c].code)
                  THEN _insert_logic_error(s, h, c)
                  ELSE IF is_group_error(h[c].code)
                       THEN _insert_group_error(s, h, c)
                       ELSE InsertPlain(s, fld, h[c]),
                  LAMBDA s1 : InsertBucketKidsLoop(s1, h, fld, errs, j + 1))

InsertBucketLoop(s, h, fld, buckets, b) ==
    IF s.exc # NoneVal \/ b > Len(buckets) THEN s
    ELSE Then(InsertBucketKidsLoop(s, h, fld, buckets[b].errs, 1),
              LAMBDA s1 : InsertBucketLoop(s1, h, fld, buckets, b + 1))

_insert_logic_error(s, h, a) ==
    LET fld == field(h[a]) IN
    Then(InsertPlain(s, fld, h[a]),
         LAMBDA s1 :
           IF s1.exc # NoneVal THEN s1
           ELSE Then(definitions_errors(h, a),
                     LAMBDA de :
                       IF de.exc # NoneVal THEN [t |-> s1.t, exc |-> de.exc]
                       ELSE InsertBucketLoop(s1, h, fld, de.buckets, 1)))

(***************************************************************************)
(* BasicErrorHandler methods (errors.py 464-502, 564-570).                 *)
(* add returns [h, t, exc]: the heap restricted to the caller's objects    *)
(* (the handler's private copies are garbage), the tree and the exception. *)
(***************************************************************************)
Dispatch(s0, h, error) ==
    LET o == h[error] IN
    IF is_logic_error(o.code) THEN _insert_logic_error(s0, h, error)
    ELSE IF is_group_error(o.code) THEN _insert_group_error(s0, h, error)
         ELSE IF o.code \in messages THEN InsertPlain(s0, field(o), o)
              ELSE s0

Rewritten(h, t, owned, error, rw) ==
    Then([t |-> t, exc |-> NoneVal],
         LAMBDA s0 :
           Then(IF rw.exc # NoneVal THEN [t |-> t, exc |-> rw.exc]
                ELSE Dispatch(s0, rw.h, error),
                LAMBDA s1 :
                  Then([x \in DOMAIN owned |-> rw.h[x]] @@ <<>>,
                       LAMBDA after :
                         [h |-> IF after = owned THEN h ELSE after @@ h,
                          t |-> s1.t, exc |-> s1.exc])))

add(h, t, a) ==
    Then([x \in Reach(h, a) |-> h[x]] @@ <<>>,
         LAMBDA owned :
           Then(deepcopy(owned, a),
                LAMBDA cp :
                  Then(_rewrite_error_path(cp.h, cp.ref, 0),
                       LAMBDA rw : Rewritten(h, t, owned, cp.ref, rw))))

\* BaseErrorHandler.extend
RECURSIVE extend(_, _, _)
extend(h, t, errors) ==
    IF Len(errors) = 0 THEN [h |-> h, t |-> t, exc |-> NoneVal]
    ELSE Then(add(h, t, Head(errors)),
              LAMBDA r : IF r.exc # NoneVal THEN r
                         ELSE extend(r.h, r.t, Tail(errors)))

clear_keep(t) == t

clear(t) == EmptyDict

RECURSIVE _purge_empty_dicts(_)
_purge_empty_dicts(error_list) ==
    LET subtree == Last(error_list).d IN
    IF DOMAIN subtree = {} THEN Front(error_list)
    ELSE Front(error_list)
         \o <<D([key \in DOMAIN subtree |-> _purge_empty_dicts(subtree[key])])>>

pretty_tree_unpurged(t) == t

pretty_tree(t) == [fld \in DOMAIN t |-> _purge_empty_dicts(t[fld])]

\* BasicErrorHandler.__call__: [h, t, exc, value]
call(h, t, errors) ==
    Then(extend(h, clear(t), errors),
         LAMBDA r :
           [h |-> r.h, t |-> r.t, exc |-> r.exc,
            value |-> IF r.exc # NoneVal THEN EmptyDict ELSE pretty_tree(r.t)])

(***************************************************************************)
(* Ordering of errors (ValidationError.__lt__, errors.py 145-149).         *)
(* compare_paths_lt comes from cerberus.utils: lexicographic order of      *)
(* paths, integer segments before strings.                                 *)
(***************************************************************************)
SegmentOrder ==
    <<"0", "1", "a", "anyof", "b", "custom", "excludes", "oneof",
      "required", "schema", "type", "x">>

SegmentRank(seg) == CHOOSE i \in 1..Len(SegmentOrder) : SegmentOrder[i] = seg

RECURSIVE compare_paths_lt(_, _)
compare_paths_lt(x, y) ==
    IF Len(x) = 0 THEN Len(y) > 0
    ELSE IF Len(y) = 0 THEN FALSE
         ELSE IF Head(x) = Head(y) THEN compare_paths_lt(Tail(x), Tail(y))
              ELSE SegmentRank(Head(x)) < SegmentRank(Head(y))

\* ValidationError.__lt__
Lt(o1, o2) ==
    IF o1.document_path # o2.document_path
    THEN compare_paths_lt(o1.document_path, o2.document_path)
    ELSE compare_paths_lt(o1.schema_path, o2.schema_path)

\* errors.append(error); errors.sort() on a list that was sorted: the new
\* error moves in front of the first error it is less than (stable sort).
AppendSorted(h, errors, a) ==
    LET later == {i \in 1..Len(errors) : Lt(h[a], h[errors[i]])}
        k == IF later = {} THEN Len(errors) + 1
             ELSE CHOOSE i \in later : \A j \in later : i <= j
    IN  SubSeq(errors, 1, k - 1) \o <<a>> \o SubSeq(errors, k, Len(errors))

(***************************************************************************)
(* ErrorTreeNode / ErrorTree (errors.py 231-344).  A node is               *)
(* [path, errors, descendants]; errors holds addresses of heap objects.    *)
(***************************************************************************)
\* ErrorTreeNode.__init__(path, parent_node)
ErrorTreeNode(path, parent_node) ==
    [path |-> SubSeq(path, 1, Len(parent_node.path) + 1),
     errors |-> <<>>,
     descendants |-> EmptyDict]

\* ErrorTree.__init__ before any error is added
ErrorTree == [path |-> <<>>, errors |-> <<>>, descendants |-> EmptyDict]

\* ErrorTreeNode._path_of_
_path_of_(tt, o) == IF tt = "document" THEN o.document_path ELSE o.schema_path

\* the error is appended at the first node below this one, whatever the
\* length of its path
NodeInsertAtFirstKey(node, h, tt, a) ==
    LET error_path == _path_of_(tt, h[a])
        key == error_path[Len(node.path) + 1]
        child == IF key \in DOMAIN node.descendants
                 THEN node.descendants[key]
                 ELSE ErrorTreeNode(error_path, node)
    IN  [node EXCEPT !.descendants =
            (key :> [child EXCEPT !.errors = AppendSorted(h, @, a)]) @@ @]

\* ErrorTreeNode.add without the insertion of the children of a group
\* error: the error is appended at the node its path addresses.
RECURSIVE NodeInsert(_, _, _, _)
NodeInsert(node, h, tt, a) ==
    LET error_path == _path_of_(tt, h[a])
        depth == Len(node.path)
        key == error_path[depth + 1]
        child == IF key \in DOMAIN node.descendants
                 THEN node.descendants[key]
                 ELSE ErrorTreeNode(error_path, node)
        child1 == IF Len(error_path) = depth + 1
                  THEN [child EXCEPT !.errors = AppendSorted(h, @, a)]
                  ELSE NodeInsert(child, h, tt, a)
    IN  [node EXCEPT !.descendants = (key :> child1) @@ @]

\* ErrorTree.add; the children of a group error that ends at a node are
\* handed to tree_root.add one after the other (errors.py 296-298).
RECURSIVE TreeAdd(_, _, _, _), TreeAddAll(_, _, _, _)
TreeAdd(root, h, tt, a) ==
    IF Len(_path_of_(tt, h[a])) = 0
    THEN [root EXCEPT !.errors = AppendSorted(h, @, a)]
    ELSE LET root1 == NodeInsert(root, h, tt, a) IN
         IF is_group_error(h[a].code)
         THEN TreeAddAll(root1, h, tt, child_errors(h[a]).list)
         ELSE root1
TreeAddAll(root, h, tt, errors) ==
    IF Len(errors) = 0 THEN root
    ELSE TreeAddAll(TreeAdd(root, h, tt, Head(errors)), h, tt, Tail(errors))

\* ErrorTree.fetch_node_from: [found, node]
RECURSIVE fetch_node_from(_, _)
fetch_node_from(context, path) ==
    IF Len(path) = 0 THEN [found |-> TRUE, node |-> context]
    ELSE IF Head(path) \notin DOMAIN context.descendants
         THEN [found |-> FALSE, node |-> ErrorTree]
         ELSE fetch_node_from(context.descendants[Head(path)], Tail(path))

\* ErrorTree.fetch_errors_from
fetch_errors_from(root, path) ==
    LET r == fetch_node_from(root, path) IN
    IF ~r.found THEN <<>> ELSE r.node.errors

(***************************************************************************)
(* The handler as a state machine                                          *)
(***************************************************************************)
NoResult == [some |-> FALSE, value |-> EmptyDict]

\* BasicErrorHandler.__init__(tree=None): the default empty tree, or a tree
\* handed in by the constructor's caller.
InitTrees ==
    { EmptyDict,
      "a" :> <<D(EmptyDict)>>,
      "b" :> <<D("x" :> <<D(EmptyDict)>>)>> }

\* the errors a collection passed to extend / __call__ is drawn from
Batch == {<<9>>, <<12>>}

RECURSIVE SeqsUpTo(_, _)
SeqsUpTo(S, n) ==
    IF n = 0 THEN {<<>>}
    ELSE LET shorter == SeqsUpTo(S, n - 1)
         IN  shorter \cup {Append(q, x) : q \in shorter, x \in S}

Collections == SeqsUpTo(Batch, MaxErrors)

TreeIdle ==
    /\ tree_type = "document"
    /\ etree = ErrorTree
    /\ added = <<>>

ClassIdle == code = 0 /\ flags = [group |-> FALSE, logic |-> FALSE]

Init ==
    /\ heap = CallerHeap
    /\ tree \in InitTrees
    /\ op = "idle"
    /\ arg = <<>>
    /\ preTree = tree
    /\ raised = NoneVal
    /\ result = NoResult
    /\ adds = 0
    /\ TreeIdle
    /\ ClassIdle

Add(a) ==
    /\ op = "idle"
    /\ adds < MaxAdds
    /\ \E r \in {add(heap, tree, a)} :
         /\ heap' = r.h
         /\ tree' = r.t
         /\ raised' = r.exc
    /\ op' = "add"
    /\ arg' = <<a>>
    /\ preTree' = tree
    /\ result' = NoResult
    /\ adds' = adds + 1
    /\ UNCHANGED <<tree_type, etree, added, code, flags>>

Extend(errors) ==
    /\ op = "idle"
    /\ adds + Len(errors) <= MaxAdds
    /\ \E r \in {extend(heap, tree, errors)} :
         /\ heap' = r.h
         /\ tree' = r.t
         /\ raised' = r.exc
    /\ op' = "extend"
    /\ arg' = errors
    /\ preTree' = tree
    /\ result' = NoResult
    /\ adds' = adds + Len(errors)
    /\ UNCHANGED <<tree_type, etree, added, code, flags>>

PrettyTree ==
    /\ op = "idle"
    /\ op' = "pretty_tree"
    /\ arg' = <<>>
    /\ preTree' = tree
    /\ raised' = NoneVal
    /\ result' = [some |-> TRUE, value |-> pretty_tree(tree)]
    /\ UNCHANGED <<heap, tree, adds, tree_type, etree, added, code, flags>>

Clear ==
    /\ op = "idle"
    /\ tree' = clear(tree)
    /\ op' = "clear"
    /\ arg' = <<>>
    /\ preTree' = tree
    /\ raised' = NoneVal
    /\ result' = NoResult
    /\ adds' = 0
    /\ UNCHANGED <<heap, tree_type, etree, added, code, flags>>

Start ==
    /\ op = "idle"
    /\ tree' = clear(tree)
    /\ op' = "start"
    /\ arg' = <<>>
    /\ preTree' = tree
    /\ raised' = NoneVal
    /\ result' = NoResult
    /\ adds' = 0
    /\ UNCHANGED <<heap, tree_type, etree, added, code, flags>>

Call(errors) ==
    /\ op = "idle"
    /\ \E r \in {call(heap, tree, errors)} :
         /\ heap' = r.h
         /\ tree' = r.t
         /\ raised' = r.exc
         /\ result' = [some |-> r.exc = NoneVal, value |-> r.value]
    /\ op' = "call"
    /\ arg' = errors
    /\ preTree' = tree
    /\ adds' = Len(errors)
    /\ UNCHANGED <<tree_type, etree, added, code, flags>>

\* the method returns: its caller is free to call the handler again
Return ==
    /\ op \in {"add", "extend", "pretty_tree", "clear", "start", "call"}
    /\ op' = "idle"
    /\ arg' = <<>>
    /\ preTree' = tree
    /\ raised' = NoneVal
    /\ result' = NoResult
    /\ UNCHANGED <<heap, tree, adds, tree_type, etree, added, code, flags>>

Next ==
    \/ \E a \in Top : Add(a)
    \/ \E errors \in Collections : Extend(errors)
    \/ PrettyTree
    \/ Clear
    \/ Start
    \/ \E errors \in Collections : Call(errors)
    \/ Return

Spec == Init /\ [][Next]_vars

(***************************************************************************)
(* The ErrorTree as a state machine                                        *)
(***************************************************************************)
HandlerIdle ==
    /\ tree = EmptyDict
    /\ preTree = EmptyDict
    /\ adds = 0

\* the errors handed to ErrorTree.add
TreeTop == {<<1>>, <<2>>, <<3>>, <<4>>, <<6>>, <<13>>, <<14>>}

\* the paths fetch_errors_from is asked for: every path of those errors,
\* their prefixes, and paths no error has
FetchPaths ==
    LET objs == {b \in DOMAIN CallerHeap : \E a \in TreeTop : IsPrefix(a, b)}
        used == UNION {{CallerHeap[b].document_path, CallerHeap[b].schema_path}
                       : b \in objs}
    IN  UNION {{SubSeq(p, 1, n) : n \in 0..Len(p)} : p \in used}
        \cup {<<"zz">>, <<"a", "zz">>, <<"a", "b", "x", "zz">>}

TreeInit ==
    /\ heap = CallerHeap
    /\ tree_type \in {"document", "schema"}
    /\ etree = ErrorTree
    /\ added = <<>>
    /\ op = "idle"
    /\ arg = <<>>
    /\ raised = NoneVal
    /\ result = NoResult
    /\ HandlerIdle
    /\ ClassIdle

TreeAddError(a) ==
    /\ Len(added) < MaxTreeAdds
    /\ etree' = TreeAdd(etree, heap, tree_type, a)
    /\ added' = Append(added, a)
    /\ op' = "add"
    /\ arg' = <<a>>
    /\ result' = NoResult
    /\ UNCHANGED <<heap, tree, preTree, raised, adds, tree_type, code, flags>>

FetchErrorsFrom(path) ==
    /\ op' = "fetch_errors_from"
    /\ arg' = path
    /\ result' = [some |-> TRUE, value |-> fetch_errors_from(etree, path)]
    /\ UNCHANGED <<heap, tree, preTree, raised, adds, tree_type, etree, added,
                   code, flags>>

TreeNext ==
    \/ \E a \in TreeTop : TreeAddError(a)
    \/ \E path \in FetchPaths : FetchErrorsFrom(path)

TreeSpec == TreeInit /\ [][TreeNext]_vars

(***************************************************************************)
(* Classification of one error code                                        *)
(***************************************************************************)
ClassInit ==
    /\ heap = CallerHeap
    /\ code \in 0..MaxCode
    /\ flags = [group |-> FALSE, logic |-> FALSE]
    /\ op = "idle"
    /\ arg = <<>>
    /\ raised = NoneVal
    /\ result = NoResult
    /\ HandlerIdle
    /\ TreeIdle

Classify ==
    /\ op = "idle"
    /\ flags' = [group |-> is_group_error(code), logic |-> is_logic_error(code)]
    /\ op' = "classify"
    /\ UNCHANGED <<heap, tree, arg, preTree, raised, result, adds, tree_type,
                   etree, added, code>>

ClassNext == Classify

ClassSpec == ClassInit /\ [][ClassNext]_vars

(***************************************************************************)
(* Observations of a handler tree used by the properties                   *)
(***************************************************************************)
IsMsg(item) == item.t = "m"

MsgsOf(list) == SelectSeq(list, IsMsg)

DictsOf(list) == SelectSeq(list, IsDict)

\* the list stored for path in the dict t, following child dicts
RECURSIVE NodeAt(_, _)
NodeAt(t, path) ==
    IF Len(path) = 0 \/ path[1] \notin DOMAIN t
    THEN [found |-> FALSE, list |-> <<>>]
    ELSE IF Len(path) = 1 THEN [found |-> TRUE, list |-> t[path[1]]]
         ELSE LET ds == DictsOf(t[path[1]]) IN
              IF Len(ds) = 0 THEN [found |-> FALSE, list |-> <<>>]
              ELSE NodeAt(ds[1].d, Tail(path))

MsgsAt(t, path) == MsgsOf(NodeAt(t, path).list)

\* every list of the dict t, at any depth
RECURSIVE ListsOf(_)
ListsOf(t) ==
    UNION {{t[k]} \cup UNION {ListsOf(DictsOf(t[k])[i].d)
                              : i \in 1..Len(DictsOf(t[k]))}
           : k \in DOMAIN t}

AllMsgs(t) == UNION {{l[i] : i \in {j \in 1..Len(l) : IsMsg(l[j])}} : l \in ListsOf(t)}

Occurs(seq, x) == Cardinality({i \in 1..Len(seq) : seq[i] = x})

\* the message a plain or logic error gets when formatted with field fld
Message(fld, o) == _format_message(fld, o).msg

Catalogued(o) == o.code \in messages

IsPlain(o) == ~is_group_error(o.code) /\ ~is_logic_error(o.code)

IsPureGroup(o) == is_group_error(o.code) /\ ~is_logic_error(o.code)

IsLogic(o) == is_group_error(o.code) /\ is_logic_error(o.code)

Kids(a) == CallerHeap[a].child_errors

\* the error the last add was called with
Arg == CallerHeap[arg[1]]

(***************************************************************************)
(* C1  add never mutates the caller's errors: after every operation each   *)
(* error object of the caller, at any depth, still has the document_path,  *)
(* schema_path, code, rule, constraint, value, info and children it was    *)
(* created with.                                                           *)
(***************************************************************************)
C1_CallerErrorsUntouched ==
    /\ DOMAIN heap = DOMAIN CallerHeap
    /\ \A a \in DOMAIN CallerHeap : heap[a] = CallerHeap[a]

\* add has rewritten the paths of a logic error nested in a logic error and
\* inserted it under its synthetic segments
C1_Witness ==
    /\ op = "add"
    /\ raised = NoneVal
    /\ IsLogic(Arg)
    /\ \E j \in DOMAIN Kids(arg[1]) : IsLogic(CallerHeap[Kids(arg[1])[j]])
    /\ NodeAt(tree, Arg.document_path
                    \o <<"anyof definition 0", "oneof definition 1">>).found

(***************************************************************************)
(* C2  No state leaks between runs: __call__(errors) returns what a        *)
(* freshly constructed handler returns for the same errors (the same       *)
(* report or the same exception), whatever the handler did before, and     *)
(* right after start or clear the tree is empty.                           *)
(***************************************************************************)
C2_NoLeakBetweenRuns ==
    /\ op = "call" =>
         LET fresh == call(heap, EmptyDict, arg) IN
         /\ raised = fresh.exc
         /\ result = [some |-> fresh.exc = NoneVal, value |-> fresh.value]
         /\ tree = fresh.t
    /\ op \in {"start", "clear"} => tree = EmptyDict

\* a call that returned a report on a handler that held other messages
C2_Witness ==
    /\ op = "call"
    /\ raised = NoneVal
    /\ Len(arg) = 2
    /\ AllMsgs(preTree) # {}
    /\ AllMsgs(preTree) \cap AllMsgs(tree) = {}
    /\ DOMAIN result.value # {}

LeadingPlain(a) ==
    {j \in DOMAIN Kids(a) :
        \A i \in 1..j : /\ IsPlain(CallerHeap[Kids(a)[i]])
                        /\ Catalogued(CallerHeap[Kids(a)[i]])}

\* the rewritten document_path of a child of a top-level group error
GroupChildPath(parent, child) ==
    parent.document_path
    \o PySliceFrom(child.document_path, Len(parent.document_path))

C4_UncataloguedSkipped ==
    /\ op = "add" => raised # "KeyError"
    /\ \A m \in AllMsgs(tree) : m.code \in messages

\* the definition indices of the children of the logic error at a, and the
\* children of one definition in their order
DefinitionIndex(a, c) == CallerHeap[c].schema_path[Len(CallerHeap[a].schema_path) + 1]

Definitions(a) == {DefinitionIndex(a, Kids(a)[j]) : j \in DOMAIN Kids(a)}

RECURSIVE ChildrenOf(_, _, _)
ChildrenOf(a, i, j) ==
    IF j > Len(Kids(a)) THEN <<>>
    ELSE (IF DefinitionIndex(a, Kids(a)[j]) = i THEN <<Kids(a)[j]>> ELSE <<>>)
         \o ChildrenOf(a, i, j + 1)

\* the messages of the errors of a list that have a template, each
\* formatted with its own original field
RECURSIVE MessagesOf(_)
MessagesOf(errs) ==
    IF Len(errs) = 0 THEN <<>>
    ELSE LET o == CallerHeap[Head(errs)] IN
         (IF Catalogued(o) THEN <<Message(field(o), o)>> ELSE <<>>)
         \o MessagesOf(Tail(errs))

(***************************************************************************)
(* C5  For a logic error with rule r at document_path p whose children     *)
(* are plain errors, added to an empty handler, the tree holds the summary *)
(* message at the node for p and, directly under p, one entry              *)
(* "r definition i" per definition index i that has children and no other  *)
(* entry; that entry holds exactly the formatted messages of the children  *)
(* of definition i, in order.                                              *)
(***************************************************************************)
C5_LogicReport ==
    ( /\ op = "add"
      /\ IsLogic(Arg)
      /\ Catalogued(Arg)
      /\ Len(Arg.document_path) > 0
      /\ preTree = EmptyDict
      /\ \A j \in DOMAIN Kids(arg[1]) : IsPlain(CallerHeap[Kids(arg[1])[j]]) )
    => LET node == NodeAt(tree, Arg.document_path)
           sub == IF Len(DictsOf(node.list)) = 0 THEN EmptyDict
                  ELSE DictsOf(node.list)[1].d
       IN  /\ node.found
           /\ MsgsOf(node.list) = <<Message(field(Arg), Arg)>>
           /\ DOMAIN sub = {nodename(Arg.rule, i) : i \in Definitions(arg[1])}
           /\ \A i \in Definitions(arg[1]) :
                 /\ MsgsOf(sub[nodename(Arg.rule, i)])
                      = MessagesOf(ChildrenOf(arg[1], i, 1))
                 /\ \A d \in 1..Len(DictsOf(sub[nodename(Arg.rule, i)])) :
                       DOMAIN DictsOf(sub[nodename(Arg.rule, i)])[d].d = {}

\* every path that has a list in the dict t
RECURSIVE PathsOf(_)
PathsOf(t) ==
    UNION {{<<k>>} \cup UNION {{<<k>> \o q : q \in PathsOf(DictsOf(t[k])[i].d)}
                               : i \in 1..Len(DictsOf(t[k]))}
           : k \in DOMAIN t}

\* the child mapping of a list of the working tree
ChildMapping(list) == Last(list).d

Returned == op \in {"pretty_tree", "call"} /\ result.some

(***************************************************************************)
(* C6 as stated: in the returned report a node whose only content is an    *)
(* empty child mapping is omitted entirely, a node with messages and an    *)
(* empty child mapping reports only its messages, a node with messages and *)
(* children keeps both, and no node carries an empty child mapping.        *)
(***************************************************************************)
C6_PurgedReport ==
    Returned =>
      /\ \A p \in PathsOf(tree) :
            LET w == NodeAt(tree, p).list
                r == NodeAt(result.value, p)
            IN  IF Len(MsgsOf(w)) = 0 /\ DOMAIN ChildMapping(w) = {}
                THEN ~r.found
                ELSE /\ r.found
                     /\ MsgsOf(r.list) = MsgsOf(w)
                     /\ IF DOMAIN ChildMapping(w) = {}
                        THEN r.list = MsgsOf(w)
                        ELSE /\ r.list = Append(MsgsOf(w), Last(r.list))
                             /\ IsDict(Last(r.list))
                             /\ DOMAIN Last(r.list).d = DOMAIN ChildMapping(w)
      /\ \A l \in ListsOf(result.value) :
            \A i \in 1..Len(l) : IsDict(l[i]) => DOMAIN l[i].d # {}

(***************************************************************************)
(* C6 amended: in the returned report every node of the working tree is    *)
(* present with its messages in order; a node with an empty child mapping  *)
(* reports only its messages (an empty list when it has no message, the    *)
(* node is not omitted), a node with children keeps its messages followed  *)
(* by the mapping of the same children, and no node carries an empty child *)
(* mapping.                                                                *)
(***************************************************************************)
C6_PurgedReportKeepsNodes ==
    Returned =>
      /\ PathsOf(result.value) = PathsOf(tree)
      /\ \A p \in PathsOf(tree) :
            LET w == NodeAt(tree, p).list
                r == NodeAt(result.value, p)
            IN  /\ r.found
                /\ IF DOMAIN ChildMapping(w) = {}
                   THEN r.list = MsgsOf(w)
                   ELSE /\ r.list = Append(MsgsOf(w), Last(r.list))
                        /\ IsDict(Last(r.list))
                        /\ DOMAIN Last(r.list).d = DOMAIN ChildMapping(w)
      /\ \A l \in ListsOf(result.value) :
            \A i \in 1..Len(l) : IsDict(l[i]) => DOMAIN l[i].d # {}

\* a report was returned for a tree that has a node with only an empty
\* child mapping, a node with messages and an empty child mapping, and a
\* node with messages and children
C6_Witness ==
    /\ op = "pretty_tree"
    /\ result.some
    /\ \E p \in PathsOf(tree) :
          LET w == NodeAt(tree, p).list IN
          Len(MsgsOf(w)) = 0 /\ DOMAIN ChildMapping(w) = {}
    /\ \E p \in PathsOf(tree) :
          LET w == NodeAt(tree, p).list IN
          Len(MsgsOf(w)) > 0 /\ DOMAIN ChildMapping(w) = {}
    /\ \E p \in PathsOf(tree) :
          LET w == NodeAt(tree, p).list IN
          Len(MsgsOf(w)) > 0 /\ DOMAIN ChildMapping(w) # {}

(***************************************************************************)
(* C10  Every message add inserts for a logic error (its own, its plain    *)
(* children's, the messages below a logic error nested in it) is the       *)
(* message of one of the errors reachable from it formatted with that      *)
(* error's original field name, the last segment of its document_path      *)
(* before path rewriting; never a synthetic "<rule> definition <i>"        *)
(* segment.                                                                *)
(***************************************************************************)
C10_OriginalFieldName ==
    (op = "add" /\ IsLogic(Arg)) =>
        AllMsgs(tree) \ AllMsgs(preTree)
          \subseteq {Message(field(CallerHeap[b]), CallerHeap[b]) :
                       b \in {x \in Reach(CallerHeap, arg[1]) :
                                Catalogued(CallerHeap[x])}}

(***************************************************************************)
(* Observations of the ErrorTree used by the properties                    *)
(***************************************************************************)
Elements(seq) == {seq[i] : i \in DOMAIN seq}

PathOf(a) == _path_of_(tree_type, CallerHeap[a])

AddedAt(a, path) ==
    Cardinality({i \in DOMAIN added : added[i] = a /\ PathOf(a) = path})

OnlyPlainAdded ==
    \A i \in DOMAIN added : ~is_group_error(CallerHeap[added[i]].code)

(***************************************************************************)
(* C7  ErrorTree.add of a group error makes the group error fetchable at   *)
(* its own path and every error of its child_errors (and, for a group      *)
(* error among them, of theirs) fetchable at its own path, whatever the    *)
(* length of the group error's path, the empty path included.              *)
(***************************************************************************)
C7_GroupFlattening ==
    (op = "add" /\ is_group_error(Arg.code)) =>
        \A b \in Reach(CallerHeap, arg[1]) :
            b \in Elements(fetch_errors_from(etree, PathOf(b)))

(***************************************************************************)
(* C8  ErrorTree lookup is exact: after adds of non-group errors,          *)
(* fetch_errors_from(path) returns exactly the added errors whose path     *)
(* (document_path or schema_path, per tree_type) equals path, each as      *)
(* often as it was added, none that ends at a proper prefix or extension,  *)
(* and the empty list for a path that has no node.                         *)
(***************************************************************************)
C8_ExactLookup ==
    OnlyPlainAdded =>
      /\ \A path \in FetchPaths :
            LET got == fetch_errors_from(etree, path) IN
            \A a \in TreeTop \cup Elements(got) :
                Occurs(got, a) = AddedAt(a, path)
      /\ op = "fetch_errors_from" =>
            \A a \in TreeTop \cup Elements(result.value) :
                Occurs(result.value, a) = AddedAt(a, arg)

\* an error at a path and an error at a proper prefix of it were added, and
\* the error at the longer path was fetched alone
C8_Witness ==
    /\ op = "fetch_errors_from"
    /\ OnlyPlainAdded
    /\ Len(added) = 2
    /\ Len(arg) >= 2
    /\ Len(result.value) = 1
    /\ \E n \in 1..(Len(arg) - 1) :
          Len(fetch_errors_from(etree, SubSeq(arg, 1, n))) = 1

(***************************************************************************)
(* C9  For every error code, is_group_error is true exactly when           *)
(* code & 0x80 is not 0, and is_logic_error is true exactly when           *)
(* is_group_error is true and code & 0x10 is not 0.                        *)
(***************************************************************************)
C9_Classification ==
    op = "classify" =>
      /\ flags.group <=> (code \div 128) % 2 = 1
      /\ flags.logic <=> (flags.group /\ (code \div 16) % 2 = 1)

(***************************************************************************)
(* C11  Insertion only grows the working tree: an add of a plain error     *)
(* with a catalogued code and a document_path p of length n >= 1 raises    *)
(* nothing and leaves, n levels deep at the node reached by the keys of p, *)
(* the messages that node held before followed by the formatted message of *)
(* the error as the last one; every node that existed before the add still *)
(* exists, its earlier messages still lead its list in their order, and    *)
(* every key of its child mapping is still there.                          *)
(***************************************************************************)
\* the keys of the child mapping of a list of the working tree
ChildKeys(list) ==
    UNION {DOMAIN DictsOf(list)[i].d : i \in 1..Len(DictsOf(list))}

\* the sequence old leads the sequence new
Leads(old, new) ==
    Len(old) <= Len(new) /\ SubSeq(new, 1, Len(old)) = old

PlainCataloguedAdd ==
    /\ op = "add"
    /\ IsPlain(Arg)
    /\ Catalogued(Arg)
    /\ Len(Arg.document_path) >= 1

C11_InsertionOnlyGrows ==
    PlainCataloguedAdd =>
      LET p == Arg.document_path
          node == NodeAt(tree, p)
      IN  /\ raised = NoneVal
          /\ node.found
          /\ MsgsOf(node.list)
               = Append(MsgsAt(preTree, p), Message(field(Arg), Arg))
          /\ IsDict(Last(node.list))
          /\ Len(DictsOf(node.list)) = 1
          /\ \A q \in PathsOf(preTree) :
                LET old == NodeAt(preTree, q).list
                    new == NodeAt(tree, q)
                IN  /\ new.found
                    /\ Leads(MsgsOf(old), MsgsOf(new.list))
                    /\ q # p => MsgsOf(new.list) = MsgsOf(old)
                    /\ ChildKeys(old) \subseteq ChildKeys(new.list)

\* a plain error three levels deep was added a second time: its node, two
\* levels below a node that existed before, already held its first message
C11_Witness ==
    /\ PlainCataloguedAdd
    /\ raised = NoneVal
    /\ Len(Arg.document_path) = 3
    /\ Len(MsgsAt(preTree, Arg.document_path)) = 1
    /\ Len(MsgsAt(tree, Arg.document_path)) = 2
    /\ MsgsAt(tree, Arg.document_path)[2] = Message(field(Arg), Arg)

\* a plain error was added below a node that held messages and no children:
\* the intermediate node and the error's node were created by the add
C11_CreatedOnDemand ==
    /\ PlainCataloguedAdd
    /\ Len(Arg.document_path) = 3
    /\ Len(MsgsAt(preTree, SubSeq(Arg.document_path, 1, 1))) > 0
    /\ ~NodeAt(preTree, SubSeq(Arg.document_path, 1, 2)).found
    /\ NodeAt(tree, Arg.document_path).found

=============================================================================
